---- MODULE Spec2Model ----
(***************************************************************************)
(* Model of policy-controller/k8s/index/src/http_route.rs: the conversion  *)
(* of Gateway-API HTTP route matches and filters into the policy           *)
(* controller's route types, and the HttpRouteResource adapter with its    *)
(* group/kind/name keys.                                                   *)
(*                                                                         *)
(* A Rust String is a sequence of one-character strings.  Every function   *)
(* of the file is an operator; an action applies one function to the       *)
(* argument held in arg and records what it returned in ret.               *)
(***************************************************************************)
EXTENDS Integers, Sequences, FiniteSets, TLC

VARIABLES fn, arg, ret, last

vars == <<fn, arg, ret, last>>

(***************************************************************************)
(* Bounds of the model.                                                    *)
(***************************************************************************)
\* longest string drawn for the single-string functions
MaxLen == 3
\* longest hostname drawn for host_match
MaxHostLen == 5
\* longest header / query-parameter / header-modifier list
MaxList == 2

(***************************************************************************)
(* Option and Result.                                                      *)
(***************************************************************************)
None == [some |-> FALSE]

Some(v) == [some |-> TRUE, val |-> v]

Ok(v) == [ok |-> TRUE, val |-> v]

Err(e) == [ok |-> FALSE, err |-> e]

\* a value that is not the return value of any function: the call is pending
Pending == [pending |-> TRUE]

(***************************************************************************)
(* Strings.                                                                *)
(***************************************************************************)
\* the characters strings are drawn from: a path separator, the wildcard,
\* the label separator, a lower- and an upper-case letter, a space, a double
\* quote and a line feed
Char == {"/", "*", ".", "a", "B", " ", "\"", "\n"}

\* the characters hostnames are drawn from
HostChar == {"*", ".", "a", "B"}

Strings == UNION {[1..k -> Char] : k \in 0..MaxLen}

Hostnames == UNION {[1..k -> HostChar] : k \in 0..MaxHostLen}

starts_with(s, prefix) ==
  /\ Len(s) >= Len(prefix)
  /\ SubSeq(s, 1, Len(prefix)) = prefix

\* str::split(c): the pieces between the occurrences of c, empty ones kept
RECURSIVE split(_, _)
split(s, c) ==
  IF \A i \in 1..Len(s) : s[i] # c
  THEN <<s>>
  ELSE LET i == CHOOSE k \in 1..Len(s) :
                  /\ s[k] = c
                  /\ \A j \in 1..(k - 1) : s[j] # c
       IN <<SubSeq(s, 1, i - 1)>> \o split(SubSeq(s, i + 1, Len(s)), c)

\* Iterator::skip(n)
skip(q, n) == SubSeq(q, n + 1, Len(q))

\* Vec::reverse
reverse(q) == [i \in 1..Len(q) |-> q[Len(q) + 1 - i]]

\* char::escape_debug as <str as Debug>::fmt applies it
escape_debug(c) ==
  CASE c = "\"" -> <<"\\", "\"">>
    [] c = "\\" -> <<"\\", "\\">>
    [] c = "\n" -> <<"\\", "n">>
    [] OTHER -> <<c>>

RECURSIVE escape_all(_)
escape_all(s) ==
  IF s = <<>> THEN <<>> ELSE escape_debug(Head(s)) \o escape_all(Tail(s))

\* the {value:?} of a format string: the string escaped, in double quotes
fmt_debug(s) == <<"\"">> \o escape_all(s) \o <<"\"">>

(***************************************************************************)
(* Errors.  An error is its type and its message.                          *)
(***************************************************************************)
Error(type, msg) == [type |-> type, msg |-> msg]

\* the grave accent (U+0060) of the message, which a TLA+ string cannot hold
Grave == "GRAVE"

PathMatchMsgHead ==
  <<
    "H", "t", "t", "p", "P", "a", "t", "h", "M", "a", "t", "c", "h", " ",
    "p", "a", "t", "h", "s", " ", "m", "u", "s", "t", " ", "b", "e", " ",
    "a", "b", "s", "o", "l", "u", "t", "e", " ", "(", "b", "e", "g", "i",
    "n", " ", "w", "i", "t", "h", " ", Grave, "/", Grave, ")", ";", " " >>

MsgTail ==
  <<
    " ", "i", "s", " ", "n", "o", "t", " ", "a", "n", " ", "a", "b", "s",
    "o", "l", "u", "t", "e", " ", "p", "a", "t", "h" >>

PathModifierMsgHead ==
  <<
    "R", "e", "q", "u", "e", "s", "t", "R", "e", "d", "i", "r", "e", "c",
    "t", " ", "f", "i", "l", "t", "e", "r", "s", " ", "m", "a", "y", " ",
    "o", "n", "l", "y", " ", "c", "o", "n", "t", "a", "i", "n", " ", "a",
    "b", "s", "o", "l", "u", "t", "e", " ", "p", "a", "t", "h", "s", " ",
    "(", "s", "t", "a", "r", "t", "i", "n", "g", " ", "w", "i", "t", "h",
    " ", "'", "/", "'", ")", ";", " " >>

(***************************************************************************)
(* The parsers of the regex and http crates the conversions call, on the   *)
(* characters of Char.                                                     *)
(***************************************************************************)
\* str::parse::<Regex>: of the characters of Char only "*" is a
\* metacharacter that can make a pattern malformed, when it has nothing
\* to repeat
regex_parse(value) ==
  IF Len(value) > 0 /\ value[1] = "*"
  THEN Err(Error("regex::Error", value))
  ELSE Ok([regex |-> value])

Upper ==
  <<"A", "B", "C", "D", "E", "F", "G", "H", "I", "J", "K", "L", "M",
    "N", "O", "P", "Q", "R", "S", "T", "U", "V", "W", "X", "Y", "Z">>

Lower ==
  <<"a", "b", "c", "d", "e", "f", "g", "h", "i", "j", "k", "l", "m",
    "n", "o", "p", "q", "r", "s", "t", "u", "v", "w", "x", "y", "z">>

Digit == {"0", "1", "2", "3", "4", "5", "6", "7", "8", "9"}

Alpha == {Upper[i] : i \in 1..26} \cup {Lower[i] : i \in 1..26}

\* the token characters of an HTTP header name or method
TokenChar ==
  Alpha \cup Digit \cup
  {"!", "#", "$", "%", "&", "'", "*", "+", "-", ".", "^", "_", Grave, "|",
   "~"}

to_ascii_lowercase(c) ==
  IF \E i \in 1..26 : Upper[i] = c
  THEN Lower[CHOOSE i \in 1..26 : Upper[i] = c]
  ELSE c

\* str::parse::<HeaderName>: a non-empty run of token characters, stored
\* in lower case
header_name_parse(name) ==
  IF name = <<>> \/ \E i \in 1..Len(name) : name[i] \notin TokenChar
  THEN Err(Error("http::header::InvalidHeaderName", <<>>))
  ELSE Ok([i \in 1..Len(name) |-> to_ascii_lowercase(name[i])])

\* str::parse::<HeaderValue>: no control character but the tab; of the
\* characters of Char the line feed is the one refused
header_value_parse(value) ==
  IF \E i \in 1..Len(value) : value[i] \in {"\n", "\r"}
  THEN Err(Error("http::header::InvalidHeaderValue", <<>>))
  ELSE Ok(value)

\* Method::try_from(&str): a non-empty run of token characters
method_try_from(m) ==
  IF m = <<>> \/ \E i \in 1..Len(m) : m[i] \notin TokenChar
  THEN Err(Error("http::method::InvalidMethod", <<>>))
  ELSE Ok([method |-> m])

\* the characters of a URI scheme
SchemeChar == Alpha \cup Digit \cup {"+", "-", "."}

\* the longest URI scheme the http crate takes
MAX_SCHEME_LEN == 64

\* Scheme::try_from(&str): "http", "https", or any other run of at most
\* MAX_SCHEME_LEN scheme characters
scheme_try_from(sc) ==
  IF sc = <<"h", "t", "t", "p">> \/ sc = <<"h", "t", "t", "p", "s">>
  THEN Ok([scheme |-> sc])
  ELSE IF Len(sc) > MAX_SCHEME_LEN
  THEN Err(Error("http::uri::InvalidUri", <<"SchemeTooLong">>))
  ELSE IF \E i \in 1..Len(sc) : sc[i] \notin SchemeChar
  THEN Err(Error("http::uri::InvalidUri", <<"InvalidScheme">>))
  ELSE Ok([scheme |-> sc])

\* StatusCode::try_from(u16): the codes 100 to 999
status_code_try_from(code) ==
  IF code >= 100 /\ code < 1000
  THEN Ok([status |-> code])
  ELSE Err(Error("http::status::InvalidStatusCode", <<>>))

\* the largest u16, the type of a port and of a status code
U16_MAX == 65535

\* NonZeroU16::try_from(u16).ok()
nonzero_u16(p) == IF p # 0 THEN Some(p) ELSE None

\* what collect::<Result<Vec<_>>>() makes of the results of the mapped
\* function: the first error, or all the values in order
collect(rs) ==
  IF \E i \in 1..Len(rs) : ~rs[i].ok
  THEN rs[CHOOSE i \in 1..Len(rs) :
            ~rs[i].ok /\ \A j \in 1..(i - 1) : rs[j].ok]
  ELSE Ok([i \in 1..Len(rs) |-> rs[i].val])

\* Option<Vec<T>>::into_iter().flatten()
flatten(opt) == IF opt.some THEN opt.val ELSE <<>>

(***************************************************************************)
(* path_match                                                              *)
(***************************************************************************)
\* the guard dropped for the PathPrefix variant
path_match_unguarded_prefix(pm) ==
  CASE pm.kind \in {"Exact"} /\ ~starts_with(pm.value, <<"/">>) ->
         Err(Error("anyhow",
                   PathMatchMsgHead \o fmt_debug(pm.value) \o MsgTail))
    [] pm.kind = "Exact" /\ starts_with(pm.value, <<"/">>) ->
         Ok([kind |-> "Exact", value |-> pm.value])
    [] pm.kind = "PathPrefix" -> Ok([kind |-> "Prefix", value |-> pm.value])
    [] pm.kind = "RegularExpression" ->
         LET r == regex_parse(pm.value)
         IN IF r.ok THEN Ok([kind |-> "Regex", value |-> r.val]) ELSE r

path_match(pm) ==
  CASE pm.kind \in {"Exact", "PathPrefix"}
         /\ ~starts_with(pm.value, <<"/">>) ->
         Err(Error("anyhow",
                   PathMatchMsgHead \o fmt_debug(pm.value) \o MsgTail))
    [] pm.kind = "Exact" /\ starts_with(pm.value, <<"/">>) ->
         Ok([kind |-> "Exact", value |-> pm.value])
    [] pm.kind = "PathPrefix" /\ starts_with(pm.value, <<"/">>) ->
         Ok([kind |-> "Prefix", value |-> pm.value])
    [] pm.kind = "RegularExpression" ->
         LET r == regex_parse(pm.value)
         IN IF r.ok THEN Ok([kind |-> "Regex", value |-> r.val]) ELSE r

(***************************************************************************)
(* host_match                                                              *)
(***************************************************************************)
\* the labels kept in the order of the hostname
host_match_unreversed(hostname) ==
  IF starts_with(hostname, <<"*", ".">>)
  THEN [kind |-> "Suffix", reverse_labels |-> skip(split(hostname, "."), 1)]
  ELSE [kind |-> "Exact", value |-> hostname]

host_match(hostname) ==
  IF starts_with(hostname, <<"*", ".">>)
  THEN [kind |-> "Suffix",
        reverse_labels |-> reverse(skip(split(hostname, "."), 1))]
  ELSE [kind |-> "Exact", value |-> hostname]

(***************************************************************************)
(* header_match and query_param_match                                      *)
(***************************************************************************)
header_match(hm) ==
  LET name == header_name_parse(hm.name)
      value == IF hm.kind = "Exact"
               THEN header_value_parse(hm.value)
               ELSE regex_parse(hm.value)
  IN IF ~name.ok THEN name
     ELSE IF ~value.ok THEN value
     ELSE Ok([kind |-> IF hm.kind = "Exact" THEN "Exact" ELSE "Regex",
              name |-> name.val, value |-> value.val])

query_param_match(qm) ==
  IF qm.kind = "Exact"
  THEN Ok([kind |-> "Exact", name |-> qm.name, value |-> qm.value])
  ELSE LET value == regex_parse(qm.value)
       IN IF ~value.ok THEN value
          ELSE Ok([kind |-> "Regex", name |-> qm.name, value |-> value.val])

(***************************************************************************)
(* try_match                                                               *)
(***************************************************************************)
\* the method converted before the headers and the query parameters
try_match_method_first(m) ==
  LET path == IF m.path.some THEN path_match(m.path.val) ELSE Ok(None)
      hs == flatten(m.headers)
      headers == collect([i \in 1..Len(hs) |-> header_match(hs[i])])
      qs == flatten(m.query_params)
      query_params ==
        collect([i \in 1..Len(qs) |-> query_param_match(qs[i])])
      method == IF m.method.some THEN method_try_from(m.method.val)
                ELSE Ok(None)
  IN IF ~path.ok THEN path
     ELSE IF ~method.ok THEN method
     ELSE IF ~headers.ok THEN headers
     ELSE IF ~query_params.ok THEN query_params
     ELSE Ok([path |-> IF m.path.some THEN Some(path.val) ELSE None,
              headers |-> headers.val,
              query_params |-> query_params.val,
              method |-> IF m.method.some THEN Some(method.val) ELSE None])

try_match(m) ==
  LET path == IF m.path.some THEN path_match(m.path.val) ELSE Ok(None)
      hs == flatten(m.headers)
      headers == collect([i \in 1..Len(hs) |-> header_match(hs[i])])
      qs == flatten(m.query_params)
      query_params ==
        collect([i \in 1..Len(qs) |-> query_param_match(qs[i])])
      method == IF m.method.some THEN method_try_from(m.method.val)
                ELSE Ok(None)
  IN IF ~path.ok THEN path
     ELSE IF ~headers.ok THEN headers
     ELSE IF ~query_params.ok THEN query_params
     ELSE IF ~method.ok THEN method
     ELSE Ok([path |-> IF m.path.some THEN Some(path.val) ELSE None,
              headers |-> headers.val,
              query_params |-> query_params.val,
              method |-> IF m.method.some THEN Some(method.val) ELSE None])

(***************************************************************************)
(* header_modifier                                                         *)
(***************************************************************************)
\* the closure mapped over add and over set
header_pair(h) ==
  LET name == header_name_parse(h.name)
      value == header_value_parse(h.value)
  IN IF ~name.ok THEN name
     ELSE IF ~value.ok THEN value
     ELSE Ok(<<name.val, value.val>>)

\* the names to remove taken as they are, unparsed
header_modifier_remove_unchecked(f) ==
  LET as == flatten(f.add)
      add == collect([i \in 1..Len(as) |-> header_pair(as[i])])
      ss == flatten(f.set)
      set == collect([i \in 1..Len(ss) |-> header_pair(ss[i])])
  IN IF ~add.ok THEN add
     ELSE IF ~set.ok THEN set
     ELSE Ok([add |-> add.val, set |-> set.val, remove |-> flatten(f.remove)])

header_modifier(f) ==
  LET as == flatten(f.add)
      add == collect([i \in 1..Len(as) |-> header_pair(as[i])])
      ss == flatten(f.set)
      set == collect([i \in 1..Len(ss) |-> header_pair(ss[i])])
      rs == flatten(f.remove)
      remove == collect([i \in 1..Len(rs) |-> header_name_parse(rs[i])])
  IN IF ~add.ok THEN add
     ELSE IF ~set.ok THEN set
     ELSE IF ~remove.ok THEN remove
     ELSE Ok([add |-> add.val, set |-> set.val, remove |-> remove.val])

(***************************************************************************)
(* path_modifier and req_redirect                                          *)
(***************************************************************************)
\* the guard dropped for the ReplacePrefixMatch variant
path_modifier_unguarded_prefix(pm) ==
  IF pm.kind = "ReplaceFullPath" /\ ~starts_with(pm.value, <<"/">>)
  THEN Err(Error("anyhow",
                 PathModifierMsgHead \o fmt_debug(pm.value) \o MsgTail))
  ELSE IF pm.kind = "ReplaceFullPath"
  THEN Ok([kind |-> "Full", value |-> pm.value])
  ELSE Ok([kind |-> "Prefix", value |-> pm.value])

path_modifier(pm) ==
  IF ~starts_with(pm.value, <<"/">>)
  THEN Err(Error("anyhow",
                 PathModifierMsgHead \o fmt_debug(pm.value) \o MsgTail))
  ELSE IF pm.kind = "ReplaceFullPath"
  THEN Ok([kind |-> "Full", value |-> pm.value])
  ELSE Ok([kind |-> "Prefix", value |-> pm.value])

\* a port that is not a NonZeroU16 reported as an error
req_redirect_strict_port(f) ==
  LET scheme == IF f.scheme.some THEN scheme_try_from(f.scheme.val)
                ELSE Ok(None)
      path == IF f.path.some THEN path_modifier(f.path.val) ELSE Ok(None)
      status == IF f.status_code.some
                THEN status_code_try_from(f.status_code.val)
                ELSE Ok(None)
  IN IF ~scheme.ok THEN scheme
     ELSE IF ~path.ok THEN path
     ELSE IF f.port.some /\ ~nonzero_u16(f.port.val).some
     THEN Err(Error("core::num::TryFromIntError", <<>>))
     ELSE IF ~status.ok THEN status
     ELSE Ok([scheme |-> IF f.scheme.some THEN Some(scheme.val) ELSE None,
              host |-> f.hostname,
              path |-> IF f.path.some THEN Some(path.val) ELSE None,
              port |-> f.port,
              status |-> IF f.status_code.some THEN Some(status.val)
                         ELSE None])

\* an invalid status code let through when the port is dropped
req_redirect_status_masked(f) ==
  LET scheme == IF f.scheme.some THEN scheme_try_from(f.scheme.val)
                ELSE Ok(None)
      path == IF f.path.some THEN path_modifier(f.path.val) ELSE Ok(None)
      port == IF f.port.some THEN nonzero_u16(f.port.val) ELSE None
      status == IF f.status_code.some
                THEN status_code_try_from(f.status_code.val)
                ELSE Ok(None)
  IN IF ~scheme.ok THEN scheme
     ELSE IF ~path.ok THEN path
     ELSE IF ~status.ok /\ ~(f.port.some /\ ~port.some) THEN status
     ELSE Ok([scheme |-> IF f.scheme.some THEN Some(scheme.val) ELSE None,
              host |-> f.hostname,
              path |-> IF f.path.some THEN Some(path.val) ELSE None,
              port |-> port,
              status |-> IF f.status_code.some /\ status.ok
                         THEN Some(status.val) ELSE None])

req_redirect(f) ==
  LET scheme == IF f.scheme.some THEN scheme_try_from(f.scheme.val)
                ELSE Ok(None)
      path == IF f.path.some THEN path_modifier(f.path.val) ELSE Ok(None)
      port == IF f.port.some THEN nonzero_u16(f.port.val) ELSE None
      status == IF f.status_code.some
                THEN status_code_try_from(f.status_code.val)
                ELSE Ok(None)
  IN IF ~scheme.ok THEN scheme
     ELSE IF ~path.ok THEN path
     ELSE IF ~status.ok THEN status
     ELSE Ok([scheme |-> IF f.scheme.some THEN Some(scheme.val) ELSE None,
              host |-> f.hostname,
              path |-> IF f.path.some THEN Some(path.val) ELSE None,
              port |-> port,
              status |-> IF f.status_code.some THEN Some(status.val)
                         ELSE None])

(***************************************************************************)
(* HttpRouteResource and the group/kind/name keys.                         *)
(*                                                                         *)
(* A resource is its variant, the name and namespace of its metadata, each *)
(* an Option<String>, its spec.inner and its Option of a status.  A call   *)
(* either returns a value or panics with a message.                        *)
(***************************************************************************)
Return(v) == [panicked |-> FALSE, val |-> v]

Panic(msg) == [panicked |-> TRUE, msg |-> msg]

\* the API group of each route type
resource_group(T) ==
  IF T = "Linkerd" THEN "policy.linkerd.io" ELSE "gateway.networking.k8s.io"

\* the kind of each route type
resource_kind(T) == "HTTPRoute"

\* ResourceExt::name_unchecked: the name of the metadata, which it unwraps
name_unchecked(route) ==
  IF route.name.some
  THEN Return(route.name.val)
  ELSE Panic(".metadata.name missing")

name(r) == name_unchecked(r)

namespace(r) ==
  IF r.namespace.some
  THEN Return(r.namespace.val)
  ELSE Panic("HttpRoute must have a namespace")

inner(r) == Return(r.inner)

status(r) ==
  Return(IF r.status.some THEN Some(r.status.val.inner) ELSE None)

\* the key named after the namespace of the instance
gkn_for_resource_namespace_name(t) ==
  LET n == name_unchecked(t)
  IN IF n.panicked THEN n
     ELSE Return([group |-> resource_group(t.variant),
                  kind |-> resource_kind(t.variant),
                  name |-> IF t.namespace.some THEN t.namespace.val
                           ELSE n.val])

gkn_for_resource(t) ==
  LET n == name_unchecked(t)
  IN IF n.panicked THEN n
     ELSE Return([group |-> resource_group(t.variant),
                  kind |-> resource_kind(t.variant),
                  name |-> n.val])

\* GroupKindName::namespaced
namespaced(gkn, ns) ==
  [group |-> gkn.group, kind |-> gkn.kind, namespace |-> ns,
   name |-> gkn.name]

\* a default namespace in place of a missing one
gknn_default_namespace(r) ==
  LET gkn == gkn_for_resource(r)
  IN IF gkn.panicked THEN gkn
     ELSE IF ~r.namespace.some
     THEN Return(namespaced(gkn.val, <<"d", "e", "f", "a", "u", "l", "t">>))
     ELSE Return(namespaced(gkn.val, r.namespace.val))

\* the key of the Linkerd route type given to a Gateway route
gknn_linkerd_key(r) ==
  LET gkn == gkn_for_resource([r EXCEPT !.variant = "Linkerd"])
  IN IF gkn.panicked THEN gkn
     ELSE IF ~r.namespace.some THEN Panic("Route must have namespace")
     ELSE Return(namespaced(gkn.val, r.namespace.val))

gknn(r) ==
  LET gkn == gkn_for_resource(r)
  IN IF gkn.panicked THEN gkn
     ELSE IF ~r.namespace.some THEN Panic("Route must have namespace")
     ELSE Return(namespaced(gkn.val, r.namespace.val))

gkn_for_linkerd_http_route(n) ==
  [group |-> resource_group("Linkerd"), kind |-> resource_kind("Linkerd"),
   name |-> n]

gkn_for_gateway_http_route(n) ==
  [group |-> resource_group("Gateway"), kind |-> resource_kind("Gateway"),
   name |-> n]

(***************************************************************************)
(* The calls.                                                              *)
(***************************************************************************)
PathMatchArgs ==
  [kind : {"Exact", "PathPrefix", "RegularExpression"}, value : Strings]

HostMatchArgs == Hostnames

Opt(S) == {None} \cup {Some(v) : v \in S}

ShortStrings == UNION {[1..k -> Char] : k \in 0..1}

HeaderMatchArgs ==
  [kind : {"Exact", "RegularExpression"}, name : ShortStrings,
   value : Strings]

QueryParamMatchArgs ==
  [kind : {"Exact", "RegularExpression"}, name : ShortStrings,
   value : Strings]

\* the matches try_match is called with: for each field some values that
\* convert and some that fail, each failure with an error of its own
PathSamples ==
  {[kind |-> "Exact", value |-> <<"/", "a">>],
   [kind |-> "Exact", value |-> <<"a">>],
   [kind |-> "PathPrefix", value |-> <<"/">>],
   [kind |-> "RegularExpression", value |-> <<".", "*">>],
   [kind |-> "RegularExpression", value |-> <<"*">>]}

HeaderSamples ==
  {[kind |-> "Exact", name |-> <<"B">>, value |-> <<"a">>],
   [kind |-> "Exact", name |-> <<" ">>, value |-> <<"\n">>],
   [kind |-> "Exact", name |-> <<"a">>, value |-> <<"\n">>],
   [kind |-> "RegularExpression", name |-> <<"a">>, value |-> <<"*">>]}

QuerySamples ==
  {[kind |-> "Exact", name |-> <<" ">>, value |-> <<"\n">>],
   [kind |-> "RegularExpression", name |-> <<"a">>, value |-> <<"*">>],
   [kind |-> "RegularExpression", name |-> <<"a">>, value |-> <<"*", "a">>]}

MethodSamples == {<<"G", "E", "T">>, <<>>, <<"a", " ", "B">>}

TryMatchArgs ==
  [path : Opt(PathSamples),
   headers : Opt(UNION {[1..k -> HeaderSamples] : k \in 0..MaxList}),
   query_params : Opt(UNION {[1..k -> QuerySamples] : k \in 0..MaxList}),
   method : Opt(MethodSamples)]

HeaderPairSamples ==
  {[name |-> <<"B">>, value |-> <<"a">>],
   [name |-> <<" ">>, value |-> <<"a">>],
   [name |-> <<"a">>, value |-> <<"\n">>]}

RemoveSamples ==
  {<<"a">>, <<"B">>,
   <<"X", "-", "B", "a", "d", " ", "N", "a", "m", "e">>}

HeaderModifierArgs ==
  [set : Opt(UNION {[1..k -> HeaderPairSamples] : k \in 0..MaxList}),
   add : Opt(UNION {[1..k -> HeaderPairSamples] : k \in 0..MaxList}),
   remove : Opt(UNION {[1..k -> RemoveSamples] : k \in 0..MaxList})]

PathModifierArgs ==
  [kind : {"ReplaceFullPath", "ReplacePrefixMatch"}, value : Strings]

SchemeSamples ==
  {<<"h", "t", "t", "p">>, <<"f", "t", "p">>, <<"h", "t", "t", "p", ":">>,
   <<" ">>}

HostnameSamples == {<<"a", ".", "B">>, <<>>}

PathModifierSamples ==
  [kind : {"ReplaceFullPath", "ReplacePrefixMatch"},
   value : {<<"/", "a">>, <<"/">>, <<>>,
            <<"r", "e", "l", "a", "t", "i", "v", "e">>}]

\* ports and status codes are u16
PortSamples == {0, 1, 8080, U16_MAX}

StatusCodeSamples == {0, 99, 100, 301, 999, 1000, U16_MAX}

ReqRedirectArgs ==
  [scheme : Opt(SchemeSamples),
   hostname : Opt(HostnameSamples),
   path : Opt(PathModifierSamples),
   port : Opt(PortSamples),
   status_code : Opt(StatusCodeSamples)]

NoCall == [fn |-> "none"]

Init ==
  /\ \/ fn = "path_match" /\ arg \in PathMatchArgs
     \/ fn = "host_match" /\ arg \in HostMatchArgs
     \/ fn = "header_match" /\ arg \in HeaderMatchArgs
     \/ fn = "query_param_match" /\ arg \in QueryParamMatchArgs
     \/ fn = "try_match" /\ arg \in TryMatchArgs
     \/ fn = "header_modifier" /\ arg \in HeaderModifierArgs
     \/ fn = "path_modifier" /\ arg \in PathModifierArgs
     \/ fn = "req_redirect" /\ arg \in ReqRedirectArgs
  /\ ret = Pending
  /\ last = NoCall

CallPathMatch ==
  /\ fn = "path_match"
  /\ ret = Pending
  /\ ret' = path_match(arg)
  /\ UNCHANGED <<fn, arg, last>>

CallHostMatch ==
  /\ fn = "host_match"
  /\ ret = Pending
  /\ ret' = host_match(arg)
  /\ UNCHANGED <<fn, arg, last>>

CallHeaderMatch ==
  /\ fn = "header_match"
  /\ ret = Pending
  /\ ret' = header_match(arg)
  /\ UNCHANGED <<fn, arg, last>>

CallQueryParamMatch ==
  /\ fn = "query_param_match"
  /\ ret = Pending
  /\ ret' = query_param_match(arg)
  /\ UNCHANGED <<fn, arg, last>>

CallTryMatch ==
  /\ fn = "try_match"
  /\ ret = Pending
  /\ ret' = try_match(arg)
  /\ UNCHANGED <<fn, arg, last>>

CallHeaderModifier ==
  /\ fn = "header_modifier"
  /\ ret = Pending
  /\ ret' = header_modifier(arg)
  /\ UNCHANGED <<fn, arg, last>>

CallPathModifier ==
  /\ fn = "path_modifier"
  /\ ret = Pending
  /\ ret' = path_modifier(arg)
  /\ UNCHANGED <<fn, arg, last>>

CallReqRedirect ==
  /\ fn = "req_redirect"
  /\ ret = Pending
  /\ ret' = req_redirect(arg)
  /\ UNCHANGED <<fn, arg, last>>

Next ==
  \/ CallPathMatch
  \/ CallHostMatch
  \/ CallHeaderMatch
  \/ CallQueryParamMatch
  \/ CallTryMatch
  \/ CallHeaderModifier
  \/ CallPathModifier
  \/ CallReqRedirect

Spec == Init /\ [][Next]_vars

(***************************************************************************)
(* The calls on resources.  A resource is whatever the watch delivered:    *)
(* the functions are called again and again, and last is the latest call   *)
(* of gkn_for_resource before the current call.                            *)
(***************************************************************************)
Names == {<<"w", "e", "b">>, <<"a", "p", "i">>}

Namespaces == {<<"d", "e", "v">>, <<"a", "p", "i">>}

InnerSamples == {"parents-a", "parents-b"}

Resources ==
  [variant : {"Linkerd", "Gateway"},
   name : Opt(Names),
   namespace : Opt(Namespaces),
   inner : InnerSamples,
   status : Opt([inner : {"status-a"}])]

\* the routes gkn_for_resource is called with: its result depends on the
\* type and the metadata only
KeyedResources ==
  {r \in Resources : r.inner = "parents-a" /\ ~r.status.some}

InitIdentity ==
  /\ fn = "none"
  /\ arg = <<>>
  /\ ret = Pending
  /\ last = NoCall

Remember ==
  last' = IF fn = "gkn_for_resource"
          THEN [fn |-> fn, arg |-> arg, ret |-> ret]
          ELSE last

CallName ==
  \E r \in Resources :
    /\ fn' = "name"
    /\ arg' = r
    /\ ret' = name(r)
    /\ Remember

CallNamespace ==
  \E r \in Resources :
    /\ fn' = "namespace"
    /\ arg' = r
    /\ ret' = namespace(r)
    /\ Remember

CallInner ==
  \E r \in Resources :
    /\ fn' = "inner"
    /\ arg' = r
    /\ ret' = inner(r)
    /\ Remember

CallStatus ==
  \E r \in Resources :
    /\ fn' = "status"
    /\ arg' = r
    /\ ret' = status(r)
    /\ Remember

CallGknn ==
  \E r \in Resources :
    /\ fn' = "gknn"
    /\ arg' = r
    /\ ret' = gknn(r)
    /\ Remember

CallGknForResource ==
  \E t \in KeyedResources :
    /\ fn' = "gkn_for_resource"
    /\ arg' = t
    /\ ret' = gkn_for_resource(t)
    /\ Remember

CallGknForLinkerdHttpRoute ==
  \E n \in Names :
    /\ fn' = "gkn_for_linkerd_http_route"
    /\ arg' = n
    /\ ret' = Return(gkn_for_linkerd_http_route(n))
    /\ Remember

CallGknForGatewayHttpRoute ==
  \E n \in Names :
    /\ fn' = "gkn_for_gateway_http_route"
    /\ arg' = n
    /\ ret' = Return(gkn_for_gateway_http_route(n))
    /\ Remember

NextIdentity ==
  \/ CallName
  \/ CallNamespace
  \/ CallInner
  \/ CallStatus
  \/ CallGknn
  \/ CallGknForResource
  \/ CallGknForLinkerdHttpRoute
  \/ CallGknForGatewayHttpRoute

SpecIdentity == InitIdentity /\ [][NextIdentity]_vars

(***************************************************************************)
(* Properties.                                                             *)
(***************************************************************************)
Returned == ret # Pending

IsAbsolute(p) == Len(p) > 0 /\ p[1] = "/"

\* p occurs in s as a run of consecutive characters
Contains(s, p) ==
  \E i \in 0..(Len(s) - Len(p)) : SubSeq(s, i + 1, i + Len(p)) = p

\* the string a double-quoted, backslash-escaped rendering stands for; a
\* rendering that is not well formed stands for no string
RECURSIVE unescape(_)
unescape(s) ==
  IF s = <<>> THEN <<>>
  ELSE IF s[1] = "\"" THEN <<"MALFORMED">>
  ELSE IF s[1] # "\\" THEN <<s[1]>> \o unescape(Tail(s))
  ELSE IF Len(s) < 2 THEN <<"MALFORMED">>
  ELSE LET c == CASE s[2] = "n" -> "\n"
                  [] s[2] = "\"" -> "\""
                  [] s[2] = "\\" -> "\\"
                  [] OTHER -> "MALFORMED"
       IN <<c>> \o unescape(SubSeq(s, 3, Len(s)))

\* msg holds p in double quotes, its quotes, backslashes and line feeds
\* escaped with a backslash
NamesQuoted(msg, p) ==
  \E i \in 1..Len(msg) : \E j \in (i + 1)..Len(msg) :
    /\ msg[i] = "\""
    /\ msg[j] = "\""
    /\ unescape(SubSeq(msg, i + 1, j - 1)) = p

NeedsNoEscape(p) == \A i \in 1..Len(p) : p[i] \notin {"\"", "\\", "\n"}

PathMatchKind(kind) == IF kind = "Exact" THEN "Exact" ELSE "Prefix"

\* C1 as stated: path_match of Exact{p} or PathPrefix{p} gives Exact(p) or
\* Prefix(p) with p unchanged when p starts with '/', and otherwise fails
\* with an error whose message contains p.
C1_MessageContainsPath ==
  (fn = "path_match" /\ Returned /\ arg.kind \in {"Exact", "PathPrefix"}) =>
    IF IsAbsolute(arg.value)
    THEN ret = Ok([kind |-> PathMatchKind(arg.kind), value |-> arg.value])
    ELSE ~ret.ok /\ Contains(ret.err.msg, arg.value)

\* C1 amended: path_match of Exact{p} or PathPrefix{p} gives Exact(p) or
\* Prefix(p) with p unchanged when p starts with '/', and otherwise fails
\* with no PathMatch and an error whose message holds p in its quoted,
\* escaped form, which is p itself in double quotes when p has no quote,
\* backslash or line feed.
C1_PathMatchAbsolute ==
  (fn = "path_match" /\ Returned /\ arg.kind \in {"Exact", "PathPrefix"}) =>
    IF IsAbsolute(arg.value)
    THEN ret = Ok([kind |-> PathMatchKind(arg.kind), value |-> arg.value])
    ELSE /\ ~ret.ok
         /\ NamesQuoted(ret.err.msg, arg.value)
         /\ NeedsNoEscape(arg.value) =>
              Contains(ret.err.msg, <<"\"">> \o arg.value \o <<"\"">>)

C1_Witness ==
  /\ fn = "path_match"
  /\ arg = [kind |-> "PathPrefix", value |-> <<"a", "\"">>]
  /\ Returned
  /\ ~ret.ok

RECURSIVE JoinDots(_)
JoinDots(labels) ==
  IF labels = <<>> THEN <<>>
  ELSE IF Len(labels) = 1 THEN labels[1]
  ELSE labels[1] \o <<".">> \o JoinDots(Tail(labels))

\* C2: host_match never fails; a hostname starting with "*." gives Suffix
\* whose reverse_labels are the '.'-separated labels of the hostname after
\* the leading "*", last label first; any other hostname h gives Exact(h).
C2_HostMatch ==
  (fn = "host_match" /\ Returned) =>
    IF Len(arg) >= 2 /\ arg[1] = "*" /\ arg[2] = "."
    THEN /\ DOMAIN ret = {"kind", "reverse_labels"}
         /\ ret.kind = "Suffix"
         /\ LET rl == ret.reverse_labels
                n == Len(rl)
            IN /\ \A i \in 1..n : ~Contains(rl[i], <<".">>)
               /\ JoinDots(<<<<"*">>>> \o [i \in 1..n |-> rl[n + 1 - i]])
                    = arg
    ELSE ret = [kind |-> "Exact", value |-> arg]

C2_Witness ==
  /\ fn = "host_match"
  /\ arg = <<"*", ".", "a", ".", "B">>
  /\ ret = [kind |-> "Suffix", reverse_labels |-> <<<<"B">>, <<"a">>>>]

\* the sub-conversions of a match in the order path, headers, query
\* parameters, method, each with its result
SubConversions(m) ==
  LET hs == IF m.headers.some THEN m.headers.val ELSE <<>>
      qs == IF m.query_params.some THEN m.query_params.val ELSE <<>>
  IN (IF m.path.some THEN <<path_match(m.path.val)>> ELSE <<>>)
     \o [i \in 1..Len(hs) |-> header_match(hs[i])]
     \o [i \in 1..Len(qs) |-> query_param_match(qs[i])]
     \o (IF m.method.some THEN <<method_try_from(m.method.val)>> ELSE <<>>)

\* C4: try_match returns a RouteMatch exactly when the path, every header,
\* every query parameter and the method convert; otherwise it returns,
\* unchanged and with no RouteMatch, the error of the first sub-conversion
\* that fails in the order path, headers, query parameters, method.
C4_TryMatchFailFast ==
  (fn = "try_match" /\ Returned) =>
    LET subs == SubConversions(arg)
        failed == {i \in 1..Len(subs) : ~subs[i].ok}
    IN /\ ret.ok <=> failed = {}
       /\ failed # {} =>
            /\ DOMAIN ret = {"ok", "err"}
            /\ \E i \in failed :
                 /\ \A j \in failed : i <= j
                 /\ ret = subs[i]
       /\ failed = {} =>
            LET np == IF arg.path.some THEN 1 ELSE 0
                nh == IF arg.headers.some THEN Len(arg.headers.val) ELSE 0
                nq == IF arg.query_params.some
                      THEN Len(arg.query_params.val) ELSE 0
            IN /\ ret.val.path.some = arg.path.some
               /\ arg.path.some => ret.val.path.val = subs[1].val
               /\ ret.val.headers = [i \in 1..nh |-> subs[np + i].val]
               /\ ret.val.query_params =
                    [i \in 1..nq |-> subs[np + nh + i].val]
               /\ ret.val.method.some = arg.method.some
               /\ arg.method.some =>
                    ret.val.method.val = subs[Len(subs)].val

\* a bad second header, a bad query parameter and a bad method: the
\* header's error is the one returned
C4_Witness ==
  /\ fn = "try_match"
  /\ arg.path = Some([kind |-> "PathPrefix", value |-> <<"/">>])
  /\ arg.headers =
       Some(<<[kind |-> "Exact", name |-> <<"B">>, value |-> <<"a">>],
              [kind |-> "Exact", name |-> <<"a">>, value |-> <<"\n">>]>>)
  /\ arg.query_params =
       Some(<<[kind |-> "RegularExpression", name |-> <<"a">>,
               value |-> <<"*">>]>>)
  /\ arg.method = Some(<<>>)
  /\ ret = Err(Error("http::header::InvalidHeaderValue", <<>>))

\* the fields of a redirect other than the port convert
SchemeConverts(f) == f.scheme.some => scheme_try_from(f.scheme.val).ok

PathConverts(f) == f.path.some => IsAbsolute(f.path.val.value)

StatusConverts(f) ==
  f.status_code.some => status_code_try_from(f.status_code.val).ok

\* C3: req_redirect never fails because of its port: when the other fields
\* convert it succeeds whatever the port, with no port override for a port
\* outside 1..65535 and with the port itself as the override for a port
\* inside.
C3_PortDroppedSilently ==
  (fn = "req_redirect" /\ Returned) =>
    /\ (SchemeConverts(arg) /\ PathConverts(arg) /\ StatusConverts(arg)) =>
         ret.ok
    /\ ret.ok =>
         ret.val.port =
           IF arg.port.some /\ arg.port.val >= 1 /\ arg.port.val <= 65535
           THEN [some |-> TRUE, val |-> arg.port.val]
           ELSE [some |-> FALSE]

C3_Witness ==
  /\ fn = "req_redirect"
  /\ arg.port = Some(0)
  /\ arg.status_code = Some(301)
  /\ Returned
  /\ ret.ok
  /\ ret.val.port = None

C3_WitnessOverride ==
  /\ fn = "req_redirect"
  /\ arg.port = Some(8080)
  /\ Returned
  /\ ret.ok
  /\ ret.val.port = Some(8080)

ListOf(opt) == IF opt.some THEN opt.val ELSE <<>>

\* C5: header_modifier succeeds exactly when every name of add, set and
\* remove is a valid header name and every value of add and set a valid
\* header value; it then gives, for each list, the parsed elements in the
\* order of the list, and an empty collection for an absent list; otherwise
\* it fails and gives no filter.
C5_HeaderModifier ==
  (fn = "header_modifier" /\ Returned) =>
    LET add == ListOf(arg.add)
        set == ListOf(arg.set)
        remove == ListOf(arg.remove)
        valid ==
          /\ \A i \in 1..Len(add) :
               /\ header_name_parse(add[i].name).ok
               /\ header_value_parse(add[i].value).ok
          /\ \A i \in 1..Len(set) :
               /\ header_name_parse(set[i].name).ok
               /\ header_value_parse(set[i].value).ok
          /\ \A i \in 1..Len(remove) : header_name_parse(remove[i]).ok
    IN /\ ret.ok <=> valid
       /\ ~ret.ok => DOMAIN ret = {"ok", "err"}
       /\ ret.ok =>
            /\ Len(ret.val.add) = Len(add)
            /\ Len(ret.val.set) = Len(set)
            /\ Len(ret.val.remove) = Len(remove)
            /\ \A i \in 1..Len(add) :
                 ret.val.add[i] = <<header_name_parse(add[i].name).val,
                                    header_value_parse(add[i].value).val>>
            /\ \A i \in 1..Len(set) :
                 ret.val.set[i] = <<header_name_parse(set[i].name).val,
                                    header_value_parse(set[i].value).val>>
            /\ \A i \in 1..Len(remove) :
                 ret.val.remove[i] = header_name_parse(remove[i]).val

C5_Witness ==
  /\ fn = "header_modifier"
  /\ arg.add = None
  /\ arg.set = None
  /\ arg.remove =
       Some(<<<<"X", "-", "B", "a", "d", " ", "N", "a", "m", "e">>>>)
  /\ Returned
  /\ ~ret.ok

C5_WitnessAbsent ==
  /\ fn = "header_modifier"
  /\ arg.remove = None
  /\ arg.add = Some(<<[name |-> <<"B">>, value |-> <<"a">>]>>)
  /\ Returned
  /\ ret.ok
  /\ ret.val.remove = <<>>
  /\ ret.val.add = <<<<(<<"b">>), (<<"a">>)>>>>

PathModifierKind(kind) ==
  IF kind = "ReplaceFullPath" THEN "Full" ELSE "Prefix"

\* the error of a path modifier that is not absolute: it says that paths
\* are to be absolute and names the value in its quoted form
NotAbsoluteError(r, v) ==
  /\ DOMAIN r = {"ok", "err"}
  /\ ~r.ok
  /\ Contains(r.err.msg, <<"a", "b", "s", "o", "l", "u", "t", "e">>)
  /\ NamesQuoted(r.err.msg, v)

\* C6: path_modifier turns ReplaceFullPath{v} into Full(v) and
\* ReplacePrefixMatch{v} into Prefix(v) when v starts with '/', and
\* otherwise fails with an error about absolute paths that names v; a
\* req_redirect carrying such a path fails as a whole, so the path modifier
\* of every filter produced starts with '/'.
C6_PathModifierAbsolute ==
  /\ (fn = "path_modifier" /\ Returned) =>
       IF IsAbsolute(arg.value)
       THEN ret = Ok([kind |-> PathModifierKind(arg.kind),
                      value |-> arg.value])
       ELSE NotAbsoluteError(ret, arg.value)
  /\ (fn = "req_redirect" /\ Returned /\ arg.path.some) =>
       IF IsAbsolute(arg.path.val.value)
       THEN ret.ok =>
              ret.val.path = Some([kind |-> PathModifierKind(arg.path.val.kind),
                                   value |-> arg.path.val.value])
       ELSE /\ ~ret.ok
            /\ SchemeConverts(arg) => NotAbsoluteError(ret, arg.path.val.value)

C6_Witness ==
  /\ fn = "req_redirect"
  /\ arg.scheme = None
  /\ arg.path = Some([kind |-> "ReplaceFullPath",
                      value |-> <<"r", "e", "l", "a", "t", "i", "v", "e">>])
  /\ Returned
  /\ ~ret.ok
  /\ ret.err.type = "anyhow"

\* C9: req_redirect fails whenever a present scheme or a present status
\* code does not convert, whatever the port; when scheme, path and status
\* code are each absent or valid it succeeds and the filter's host is the
\* hostname given.
C9_RedirectFailures ==
  (fn = "req_redirect" /\ Returned) =>
    /\ (~SchemeConverts(arg) \/ ~StatusConverts(arg)) => ~ret.ok
    /\ (SchemeConverts(arg) /\ PathConverts(arg) /\ StatusConverts(arg)) =>
         /\ ret.ok
         /\ ret.val.host = arg.hostname
         /\ ret.val.scheme.some = arg.scheme.some
         /\ ret.val.status.some = arg.status_code.some

\* an invalid status code with a port that is dropped
C9_Witness ==
  /\ fn = "req_redirect"
  /\ arg.scheme = Some(<<"h", "t", "t", "p">>)
  /\ arg.port = Some(0)
  /\ arg.status_code = Some(1000)
  /\ Returned
  /\ ret = Err(Error("http::status::InvalidStatusCode", <<>>))

\* C7: the key gkn_for_resource derives has the name of the instance as
\* declared and the group and kind of the instance's type; a second call
\* with the same instance gives the same key, and a call with another
\* instance of the same type gives a key of the same group and kind.
C7_KeyFromTypeAndName ==
  (fn = "gkn_for_resource" /\ ~ret.panicked) =>
    /\ arg.name = [some |-> TRUE, val |-> ret.val.name]
    /\ ret.val.group = resource_group(arg.variant)
    /\ ret.val.kind = resource_kind(arg.variant)
    /\ (last.fn = "gkn_for_resource" /\ last.arg = arg) => last.ret = ret
    /\ (/\ last.fn = "gkn_for_resource"
        /\ ~last.ret.panicked
        /\ last.arg.variant = arg.variant) =>
         /\ last.ret.val.group = ret.val.group
         /\ last.ret.val.kind = ret.val.kind

\* two calls for instances of one type with different names
C7_Witness ==
  /\ fn = "gkn_for_resource"
  /\ last.fn = "gkn_for_resource"
  /\ arg.variant = "Linkerd"
  /\ last.arg.variant = "Linkerd"
  /\ arg.name = Some(<<"w", "e", "b">>)
  /\ last.arg.name = Some(<<"a", "p", "i">>)
  /\ arg.namespace = Some(<<"d", "e", "v">>)
  /\ ret = Return([group |-> "policy.linkerd.io", kind |-> "HTTPRoute",
                   name |-> <<"w", "e", "b">>])

OtherVariant(v) == IF v = "Linkerd" THEN "Gateway" ELSE "Linkerd"

GroupKindName(k) == [group |-> k.group, kind |-> k.kind, name |-> k.name]

\* C10: for a resource with a namespace, gknn() gives a key exactly when
\* name() gives a name; the key's name is that of name(), its namespace
\* that of namespace(), and its group, kind and name are those of the
\* name-only constructor of the resource's variant; the other variant with
\* the same name and namespace has a different key with the same name and
\* namespace.
C10_KeyConsistent ==
  (fn = "gknn" /\ arg.namespace.some) =>
    /\ ret.panicked <=> name(arg).panicked
    /\ ~ret.panicked =>
         /\ ret.val.name = name(arg).val
         /\ ret.val.namespace = namespace(arg).val
         /\ GroupKindName(ret.val) =
              IF arg.variant = "Linkerd"
              THEN gkn_for_linkerd_http_route(name(arg).val)
              ELSE gkn_for_gateway_http_route(name(arg).val)
         /\ LET other ==
                  gknn([arg EXCEPT !.variant = OtherVariant(arg.variant)])
            IN /\ ~other.panicked
               /\ other.val # ret.val
               /\ other.val.name = ret.val.name
               /\ other.val.namespace = ret.val.namespace

C10_Witness ==
  /\ fn = "gknn"
  /\ arg.variant = "Gateway"
  /\ arg.name = Some(<<"w", "e", "b">>)
  /\ arg.namespace = Some(<<"d", "e", "v">>)
  /\ ret = Return([group |-> "gateway.networking.k8s.io",
                   kind |-> "HTTPRoute",
                   namespace |-> <<"d", "e", "v">>,
                   name |-> <<"w", "e", "b">>])

====
